---- MODULE Spec2Model ----
(***************************************************************************)
(* Overlap detection of the analytics panel: tokenizeWithSpans,            *)
(* findLongestCommonBlock, findMatchingBlocks, mergeRanges,                *)
(* blocksToCharRanges, highlightByRanges and the overlapRanges pipeline    *)
(* that chains them.                                                       *)
(*                                                                         *)
(* Indices are 0-based as in the source; a TLA+ sequence s holds the       *)
(* source's s[i] at s[i + 1].  A text is a sequence of one-character       *)
(* strings, a token is the sequence of its (lower-cased) characters.       *)
(***************************************************************************)
EXTENDS Integers, Sequences, FiniteSets, TLC

VARIABLES
    humanText,      \* finalHumanSubmission
    aiOutputs,      \* results of the AI's chat messages, in session order
    aiText,         \* totalAiOutput
    humanSpans,     \* tokenizeWithSpans(finalHumanSubmission)
    aiSpans,        \* tokenizeWithSpans(totalAiOutput)
    a,              \* first token sequence handed to findMatchingBlocks
    b,              \* second token sequence handed to findMatchingBlocks
    minMatchWords,  \* threshold handed to findMatchingBlocks
    pending,        \* work list of findMatchingBlocks (a stack, top = last)
    blocks,         \* blocks recorded so far by findMatchingBlocks
    result,         \* value returned by findMatchingBlocks
    ranges,         \* value of overlapRanges: [human |-> ..., ai |-> ...]
    pc,             \* position: "start", "loop", "returned", "mapped",
                    \* or "call", "done" around a call of one helper
    previous,       \* values of the earlier evaluations of overlapRanges
    call,           \* the helper call under study: function and arguments
    returned        \* outcome of that call

vars == <<humanText, aiText, aiOutputs, humanSpans, aiSpans, a, b,
          minMatchWords,
          pending, blocks, result, ranges, pc, previous, call, returned>>

----------------------------------------------------------------------------
(* Bounds of the model *)

\* longest token sequence explored by the matcher specification
MaxLen == 4
\* largest threshold explored by the matcher specification
MaxThreshold == 3
\* cap on the number of recorded blocks (bounds the runs that never return)
MaxRecorded == 5

\* most words of a human submission explored by the pipeline specification
MaxHumanWords == 7
\* most AI chat messages explored by the pipeline specification
MaxAiMessages == 6

\* longest text explored by the comparison specification
MaxTextLen == 5
\* most re-evaluations of overlapRanges explored by the comparison specification
MaxReruns == 1

\* largest character offset of the spans handed to mergeRanges alone
MaxOffset == 4
\* most spans handed to mergeRanges alone
MaxSpans == 3

\* most ranges handed to highlightByRanges alone
MaxMarks == 2

\* largest token index of the blocks handed to blocksToCharRanges alone
MaxTokenIndex == 3
\* largest size of the blocks handed to blocksToCharRanges alone
MaxBlockSize == 2

\* longest token sequence handed to findLongestCommonBlock alone
MaxRegionLen == 4

\* longest token sequence explored with the work list taken in any order
MaxAnyOrderLen == 6

\* tokens of the matcher specification
Vocabulary == {<<"x">>, <<"y">>, <<"z">>}

\* thresholds of the matcher specification, the invalid ones (<= 0) included
Thresholds == -1 .. MaxThreshold

Min(x, y) == IF x <= y THEN x ELSE y
Max(x, y) == IF x >= y THEN x ELSE y

SeqsUpTo(S, n) == UNION {[1 .. k -> S] : k \in 0 .. n}

\* TLC hands an operator its arguments unevaluated and computes them where
\* they are first read. Evaluated(v) is TRUE for every v, and reading it
\* computes v on the spot: a loop written as a recursion tests it on the
\* value of one iteration before it enters the next, so that the pending
\* values of all iterations never pile up on TLC's evaluation stack.
Evaluated(v) == v = v

----------------------------------------------------------------------------
(* findLongestCommonBlock: the dynamic-programming sweep *)

\* new Array(bLen + 1).fill(0), indexed 0 .. bLen
ZeroRow(bLen) == [k \in 0 .. bLen |-> 0]

\* the inner loop reading prev[j - bLo + 1], the cell above, instead of
\* prev[j - bLo], the cell on the diagonal
RECURSIVE SweepColumnsCellAbove(_, _, _, _, _, _, _)
SweepColumnsCellAbove(sa, sb, i, j, bLo, bHi, st) ==
    IF j >= bHi THEN st
    ELSE IF sa[i + 1] = sb[j + 1]
         THEN LET val == st.prev[j - bLo + 1] + 1
                  st1 == [st EXCEPT !.curr[j - bLo + 1] = val]
                  st2 == IF val > st.bestSize
                         THEN [st1 EXCEPT !.bestSize = val,
                                          !.bestAEnd = i + 1,
                                          !.bestBEnd = j + 1]
                         ELSE st1
              IN  SweepColumnsCellAbove(sa, sb, i, j + 1, bLo, bHi, st2)
         ELSE SweepColumnsCellAbove(sa, sb, i, j + 1, bLo, bHi, st)

\* the test is val >= bestSize: the last of several longest runs is kept
RECURSIVE SweepColumnsLastTieWins(_, _, _, _, _, _, _)
SweepColumnsLastTieWins(sa, sb, i, j, bLo, bHi, st) ==
    IF j >= bHi THEN st
    ELSE IF sa[i + 1] = sb[j + 1]
         THEN LET val == st.prev[j - bLo] + 1
                  st1 == [st EXCEPT !.curr[j - bLo + 1] = val]
                  st2 == IF val >= st.bestSize
                         THEN [st1 EXCEPT !.bestSize = val,
                                          !.bestAEnd = i + 1,
                                          !.bestBEnd = j + 1]
                         ELSE st1
              IN  SweepColumnsLastTieWins(sa, sb, i, j + 1, bLo, bHi, st2)
         ELSE SweepColumnsLastTieWins(sa, sb, i, j + 1, bLo, bHi, st)

\* the inner loop over j, for one row i; st = the sweep's local variables
RECURSIVE SweepColumns(_, _, _, _, _, _, _)
SweepColumns(sa, sb, i, j, bLo, bHi, st) ==
    IF j >= bHi THEN st
    ELSE IF sa[i + 1] = sb[j + 1]
         THEN LET val == st.prev[j - bLo] + 1
                  st1 == [st EXCEPT !.curr[j - bLo + 1] = val]
                  st2 == IF val > st.bestSize
                         THEN [st1 EXCEPT !.bestSize = val,
                                          !.bestAEnd = i + 1,
                                          !.bestBEnd = j + 1]
                         ELSE st1
              IN  SweepColumns(sa, sb, i, j + 1, bLo, bHi, st2)
         ELSE SweepColumns(sa, sb, i, j + 1, bLo, bHi, st)

\* the copy of curr into prev at the end of a row is left out
RECURSIVE SweepRowsStalePrev(_, _, _, _, _, _, _)
SweepRowsStalePrev(sa, sb, i, aHi, bLo, bHi, st) ==
    IF i >= aHi THEN st
    ELSE LET fresh == [st EXCEPT !.curr = ZeroRow(bHi - bLo)]
             swept == SweepColumns(sa, sb, i, bLo, bLo, bHi, fresh)
         IN  IF Evaluated(swept)
             THEN SweepRowsStalePrev(sa, sb, i + 1, aHi, bLo, bHi, swept)
             ELSE swept

\* the outer loop over i: a fresh curr row, the inner loop, prev := curr
RECURSIVE SweepRows(_, _, _, _, _, _, _)
SweepRows(sa, sb, i, aHi, bLo, bHi, st) ==
    IF i >= aHi THEN st
    ELSE LET fresh == [st EXCEPT !.curr = ZeroRow(bHi - bLo)]
             swept == SweepColumns(sa, sb, i, bLo, bLo, bHi, fresh)
         IN  IF Evaluated(swept)
             THEN SweepRows(sa, sb, i + 1, aHi, bLo, bHi,
                            [swept EXCEPT !.prev = swept.curr])
             ELSE swept

\* only the first token of the longest run is returned
findLongestCommonBlockFirstToken(sa, sb, aLo, aHi, bLo, bHi) ==
    LET bLen == bHi - bLo
    IN  IF aLo >= aHi \/ bLo >= bHi \/ bLen <= 0
        THEN [aStart |-> aLo, bStart |-> bLo, size |-> 0]
        ELSE LET st0 == [prev |-> ZeroRow(bLen), curr |-> ZeroRow(bLen),
                         bestSize |-> 0, bestAEnd |-> aLo, bestBEnd |-> bLo]
                 st  == SweepRows(sa, sb, aLo, aHi, bLo, bHi, st0)
             IN  [aStart |-> st.bestAEnd - st.bestSize,
                  bStart |-> st.bestBEnd - st.bestSize,
                  size   |-> Min(st.bestSize, 1)]

findLongestCommonBlock(sa, sb, aLo, aHi, bLo, bHi) ==
    LET bLen == bHi - bLo
    IN  IF aLo >= aHi \/ bLo >= bHi \/ bLen <= 0
        THEN [aStart |-> aLo, bStart |-> bLo, size |-> 0]
        ELSE LET st0 == [prev |-> ZeroRow(bLen), curr |-> ZeroRow(bLen),
                         bestSize |-> 0, bestAEnd |-> aLo, bestBEnd |-> bLo]
                 st  == SweepRows(sa, sb, aLo, aHi, bLo, bHi, st0)
             IN  [aStart |-> st.bestAEnd - st.bestSize,
                  bStart |-> st.bestBEnd - st.bestSize,
                  size   |-> st.bestSize]

----------------------------------------------------------------------------
(* findMatchingBlocks: the work list *)

\* the initial work list: the full region
InitialPending(sa, sb) ==
    <<[aLo |-> 0, aHi |-> Len(sa), bLo |-> 0, bHi |-> Len(sb)]>>

\* the second push forgotten: only the region before the block
SubRegionsBeforeOnly(range, best) ==
    << [aLo |-> range.aLo, aHi |-> best.aStart,
        bLo |-> range.bLo, bHi |-> best.bStart] >>

\* the region after the block starts at the block's start in b: the
\* block's tokens of b are not excluded
SubRegionsKeepBTokens(range, best) ==
    << [aLo |-> range.aLo, aHi |-> best.aStart,
        bLo |-> range.bLo, bHi |-> best.bStart],
       [aLo |-> best.aStart + best.size, aHi |-> range.aHi,
        bLo |-> best.bStart, bHi |-> range.bHi] >>

\* the region after the block starts at the block's start: the block is
\* not excluded
SubRegionsKeepBlock(range, best) ==
    << [aLo |-> range.aLo, aHi |-> best.aStart,
        bLo |-> range.bLo, bHi |-> best.bStart],
       [aLo |-> best.aStart, aHi |-> range.aHi,
        bLo |-> best.bStart, bHi |-> range.bHi] >>

\* the region before the block reaches one token into the block
SubRegionsBeforeOverlapsBlock(range, best) ==
    << [aLo |-> range.aLo, aHi |-> best.aStart + 1,
        bLo |-> range.bLo, bHi |-> best.bStart],
       [aLo |-> best.aStart + best.size, aHi |-> range.aHi,
        bLo |-> best.bStart + best.size, bHi |-> range.bHi] >>

\* the two sub-regions pushed after a block was recorded: before, then after
SubRegions(range, best) ==
    << [aLo |-> range.aLo, aHi |-> best.aStart,
        bLo |-> range.bLo, bHi |-> best.bStart],
       [aLo |-> best.aStart + best.size, aHi |-> range.aHi,
        bLo |-> best.bStart + best.size, bHi |-> range.bHi] >>

\* the threshold test off by one: best.size < m - 1
LoopBodyLowThreshold(sa, sb, m, w) ==
    LET range == w.pending[Len(w.pending)]
        rest  == SubSeq(w.pending, 1, Len(w.pending) - 1)
        best  == findLongestCommonBlock(sa, sb, range.aLo, range.aHi,
                                        range.bLo, range.bHi)
    IN  IF best.size < m - 1
        THEN [pending |-> rest, blocks |-> w.blocks]
        ELSE [pending |-> rest \o SubRegions(range, best),
              blocks  |-> Append(w.blocks, best)]

\* the threshold test with <= : a best block of exactly m tokens is dropped
LoopBodyStrictThreshold(sa, sb, m, w) ==
    LET range == w.pending[Len(w.pending)]
        rest  == SubSeq(w.pending, 1, Len(w.pending) - 1)
        best  == findLongestCommonBlock(sa, sb, range.aLo, range.aHi,
                                        range.bLo, range.bHi)
    IN  IF best.size <= m
        THEN [pending |-> rest, blocks |-> w.blocks]
        ELSE [pending |-> rest \o SubRegions(range, best),
              blocks  |-> Append(w.blocks, best)]

\* one iteration of the while loop on the state [pending, blocks]
LoopBody(sa, sb, m, w) ==
    LET range == w.pending[Len(w.pending)]
        rest  == SubSeq(w.pending, 1, Len(w.pending) - 1)
        best  == findLongestCommonBlock(sa, sb, range.aLo, range.aHi,
                                        range.bLo, range.bHi)
    IN  IF best.size < m
        THEN [pending |-> rest, blocks |-> w.blocks]
        ELSE [pending |-> rest \o SubRegions(range, best),
              blocks  |-> Append(w.blocks, best)]

\* the comparator is (x, y) => x.size - y.size: blocks of one size stay in
\* the order in which they were recorded
RECURSIVE InsertByAStartComparesSize(_, _)
InsertByAStartComparesSize(sorted, blk) ==
    IF sorted = <<>> THEN <<blk>>
    ELSE IF sorted[Len(sorted)].size <= blk.size
         THEN Append(sorted, blk)
         ELSE Append(InsertByAStartComparesSize(
                         SubSeq(sorted, 1, Len(sorted) - 1), blk),
                     sorted[Len(sorted)])

\* the comparator is (x, y) => y.aStart - x.aStart: descending order
RECURSIVE InsertByAStartDescending(_, _)
InsertByAStartDescending(sorted, blk) ==
    IF sorted = <<>> THEN <<blk>>
    ELSE IF sorted[Len(sorted)].aStart >= blk.aStart
         THEN Append(sorted, blk)
         ELSE Append(InsertByAStartDescending(
                         SubSeq(sorted, 1, Len(sorted) - 1), blk),
                     sorted[Len(sorted)])

\* Array.prototype.sort with (x, y) => x.aStart - y.aStart: a stable sort
RECURSIVE InsertByAStart(_, _)
InsertByAStart(sorted, blk) ==
    IF sorted = <<>> THEN <<blk>>
    ELSE IF sorted[Len(sorted)].aStart <= blk.aStart
         THEN Append(sorted, blk)
         ELSE Append(InsertByAStart(SubSeq(sorted, 1, Len(sorted) - 1), blk),
                     sorted[Len(sorted)])

\* the blocks are returned in the order they were recorded
SortByAStartSkipped(bs) == bs

RECURSIVE SortByAStart(_)
SortByAStart(bs) ==
    IF bs = <<>> THEN <<>>
    ELSE InsertByAStart(SortByAStart(SubSeq(bs, 1, Len(bs) - 1)), bs[Len(bs)])

\* the while loop run to its end: the blocks recorded when pending is empty
RECURSIVE RunLoop(_, _, _, _)
RunLoop(sa, sb, m, w) ==
    IF w.pending = <<>> THEN w.blocks
    ELSE RunLoop(sa, sb, m, LoopBody(sa, sb, m, w))

\* the value of a call that returns (it does for every m >= 1)
findMatchingBlocks(sa, sb, m) ==
    SortByAStart(RunLoop(sa, sb, m, [pending |-> InitialPending(sa, sb),
                                     blocks  |-> <<>>]))

----------------------------------------------------------------------------
(* tokenizeWithSpans: the regular expression /[a-z0-9']+/gi *)

LowerCaseLetters ==
    <<"a", "b", "c", "d", "e", "f", "g", "h", "i", "j", "k", "l", "m",
      "n", "o", "p", "q", "r", "s", "t", "u", "v", "w", "x", "y", "z">>
UpperCaseLetters ==
    <<"A", "B", "C", "D", "E", "F", "G", "H", "I", "J", "K", "L", "M",
      "N", "O", "P", "Q", "R", "S", "T", "U", "V", "W", "X", "Y", "Z">>
Digits == {"0", "1", "2", "3", "4", "5", "6", "7", "8", "9"}

Range(f) == {f[x] : x \in DOMAIN f}

\* the character class [a-z0-9'] under the flag i
IsTokenChar(c) ==
    c \in Range(LowerCaseLetters) \cup Range(UpperCaseLetters)
          \cup Digits \cup {"'"}

\* String.prototype.toLowerCase on one character of the class
LowerChar(c) ==
    IF c \in Range(UpperCaseLetters)
    THEN LowerCaseLetters[CHOOSE k \in 1 .. 26 : UpperCaseLetters[k] = c]
    ELSE c

toLowerCase(str) == [k \in 1 .. Len(str) |-> LowerChar(str[k])]

\* the match takes one character only, as for [a-z0-9'] without the +
MatchEndSingleChar(text, i) == i + 1

\* the end of the greedy match [a-z0-9']+ that starts at index i
RECURSIVE MatchEnd(_, _)
MatchEnd(text, i) ==
    IF i < Len(text) /\ IsTokenChar(text[i + 1])
    THEN MatchEnd(text, i + 1)
    ELSE i

\* the next search starts one character after the start of the last match
\* instead of at its end
RECURSIVE ExecLoopRestartsInside(_, _, _)
ExecLoopRestartsInside(text, lastIndex, spans) ==
    IF lastIndex >= Len(text) THEN spans
    ELSE IF ~ IsTokenChar(text[lastIndex + 1])
         THEN ExecLoopRestartsInside(text, lastIndex + 1, spans)
         ELSE LET end == MatchEnd(text, lastIndex)
              IN  ExecLoopRestartsInside(text, lastIndex + 1,
                      Append(spans,
                          [token |-> toLowerCase(SubSeq(text, lastIndex + 1, end)),
                           start |-> lastIndex,
                           end   |-> end]))

\* the while loop over regex.exec, from lastIndex on
RECURSIVE ExecLoop(_, _, _)
ExecLoop(text, lastIndex, spans) ==
    IF lastIndex >= Len(text) THEN spans
    ELSE IF ~ IsTokenChar(text[lastIndex + 1])
         THEN ExecLoop(text, lastIndex + 1, spans)
         ELSE LET end == MatchEnd(text, lastIndex)
              IN  ExecLoop(text, end,
                      Append(spans,
                          [token |-> toLowerCase(SubSeq(text, lastIndex + 1, end)),
                           start |-> lastIndex,
                           end   |-> end]))

tokenizeWithSpans(text) == ExecLoop(text, 0, <<>>)

\* spans.map((s) => s.token)
TokensOf(spans) == [k \in 1 .. Len(spans) |-> spans[k].token]

----------------------------------------------------------------------------
(* mergeRanges and blocksToCharRanges *)

\* [...ranges].sort((a, b) => a.start - b.start): a stable sort
RECURSIVE InsertByStart(_, _)
InsertByStart(sorted, span) ==
    IF sorted = <<>> THEN <<span>>
    ELSE IF sorted[Len(sorted)].start <= span.start
         THEN Append(sorted, span)
         ELSE Append(InsertByStart(SubSeq(sorted, 1, Len(sorted) - 1), span),
                     sorted[Len(sorted)])

RECURSIVE SortByStart(_)
SortByStart(rs) ==
    IF rs = <<>> THEN <<>>
    ELSE InsertByStart(SortByStart(SubSeq(rs, 1, Len(rs) - 1)), rs[Len(rs)])

\* the push takes sorted[i - 1] instead of sorted[i]
MergeStepPushesPrevious(sorted, i, merged) ==
    LET last == merged[Len(merged)]
        curr == sorted[i + 1]
    IN  IF curr.start <= last.end
        THEN [merged EXCEPT ![Len(merged)].end = Max(last.end, curr.end)]
        ELSE Append(merged, sorted[i])

\* the test is curr.start <= last.end + 2: spans up to two characters apart
\* are joined
MergeStepJoinsAcrossSeparator(sorted, i, merged) ==
    LET last == merged[Len(merged)]
        curr == sorted[i + 1]
    IN  IF curr.start <= last.end + 2
        THEN [merged EXCEPT ![Len(merged)].end = Max(last.end, curr.end)]
        ELSE Append(merged, curr)

\* the test is curr.start < last.end: touching spans are not joined
MergeStepStrictOverlap(sorted, i, merged) ==
    LET last == merged[Len(merged)]
        curr == sorted[i + 1]
    IN  IF curr.start < last.end
        THEN [merged EXCEPT ![Len(merged)].end = Max(last.end, curr.end)]
        ELSE Append(merged, curr)

\* the extension takes curr.end instead of the larger of the two ends
MergeStepKeepsCurrEnd(sorted, i, merged) ==
    LET last == merged[Len(merged)]
        curr == sorted[i + 1]
    IN  IF curr.start <= last.end
        THEN [merged EXCEPT ![Len(merged)].end = curr.end]
        ELSE Append(merged, curr)

\* one iteration of the fold, at 0-based index i of sorted: extend the last
\* merged span or push a copy of sorted[i]
MergeStep(sorted, i, merged) ==
    LET last == merged[Len(merged)]
        curr == sorted[i + 1]
    IN  IF curr.start <= last.end
        THEN [merged EXCEPT ![Len(merged)].end = Max(last.end, curr.end)]
        ELSE Append(merged, curr)

\* the for loop over sorted[1 ..]
RECURSIVE MergeLoop(_, _, _)
MergeLoop(sorted, i, merged) ==
    IF i >= Len(sorted) THEN merged
    ELSE MergeLoop(sorted, i + 1, MergeStep(sorted, i, merged))

\* without the guard on an empty list: sorted[0] is undefined and the
\* list [undefined] is returned
mergeRangesUnguarded(rs) ==
    LET sorted == SortByStart(rs)
    IN  IF Len(sorted) = 0 THEN <<"undefined">>
        ELSE MergeLoop(sorted, 1, <<sorted[1]>>)

\* the fold runs over the list as given, without sorting it
mergeRangesUnsorted(rs) ==
    IF Len(rs) = 0 THEN <<>>
    ELSE MergeLoop(rs, 1, <<rs[1]>>)

mergeRanges(rs) ==
    IF Len(rs) = 0 THEN <<>>
    ELSE LET sorted == SortByStart(rs)
         IN  MergeLoop(sorted, 1, <<sorted[1]>>)

\* position in the input array of the object the stable sort puts first:
\* the first span with the least start
SortedHeadIndex(rs) ==
    CHOOSE k \in 1 .. Len(rs) :
        \A j \in 1 .. Len(rs) :
            \/ rs[k].start < rs[j].start
            \/ rs[k].start = rs[j].start /\ k <= j

\* the input array after the call.  sorted is a shallow copy, so sorted[0] is
\* an object of the input array, and merged = [sorted[0]] holds that object
\* itself: every last.end = ... made while merged has one element writes into
\* it, and it ends as merged[0].  Later elements of merged are copies.
InputAfterMerge(rs) ==
    IF Len(rs) = 0 THEN rs
    ELSE [rs EXCEPT ![SortedHeadIndex(rs)] = mergeRanges(rs)[1]]

\* tokenStart of a block on one side
TokenStart(block, side) ==
    IF side = "a" THEN block.aStart ELSE block.bStart

\* the index one past the last token of the block
TokenEndPastLast(block, side) ==
    TokenStart(block, side) + block.size

\* tokenEnd: index of the last token of the block
TokenEnd(block, side) ==
    TokenStart(block, side) + block.size - 1

\* the guard of the loop body: the block is skipped
IsSkipped(block, spans, side) ==
    TokenStart(block, side) < 0 \/ TokenEnd(block, side) >= Len(spans)

\* indices of spans the loop body reads for a block: none when it skips the
\* block, spans[tokenStart] first, and spans[tokenEnd] when that read gave
\* an object
IndicesRead(block, spans, side) ==
    IF IsSkipped(block, spans, side) THEN {}
    ELSE IF TokenStart(block, side) >= Len(spans)
         THEN {TokenStart(block, side)}
         ELSE {TokenStart(block, side), TokenEnd(block, side)}

\* an index outside the array reads undefined, and reading .start or .end of
\* undefined throws a TypeError
ThrowsTypeError(block, spans, side) ==
    \E i \in IndicesRead(block, spans, side) : i < 0 \/ i >= Len(spans)

\* the pushed span ends with the first token of the block
BlockRangeFirstTokenOnly(block, spans, side) ==
    [start |-> spans[TokenStart(block, side) + 1].start,
     end   |-> spans[TokenStart(block, side) + 1].end]

\* the span pushed for a block: from its first token's start to its last
\* token's end
BlockRange(block, spans, side) ==
    [start |-> spans[TokenStart(block, side) + 1].start,
     end   |-> spans[TokenEnd(block, side) + 1].end]

\* the for loop over the blocks: one span per block that is not skipped
RECURSIVE CollectRanges(_, _, _, _)
CollectRanges(bs, spans, side, acc) ==
    IF bs = <<>> THEN acc
    ELSE IF IsSkipped(Head(bs), spans, side)
         THEN CollectRanges(Tail(bs), spans, side, acc)
         ELSE CollectRanges(Tail(bs), spans, side,
                            Append(acc, BlockRange(Head(bs), spans, side)))

\* the call ends with a TypeError: some block of the list makes the loop body
\* read outside spans
blocksToCharRangesThrows(bs, spans, side) ==
    \E k \in 1 .. Len(bs) : ThrowsTypeError(bs[k], spans, side)

\* every index of spans the call reads, up to the block that throws
RECURSIVE blocksToCharRangesReads(_, _, _)
blocksToCharRangesReads(bs, spans, side) ==
    IF bs = <<>> THEN {}
    ELSE IF ThrowsTypeError(Head(bs), spans, side)
         THEN IndicesRead(Head(bs), spans, side)
         ELSE IndicesRead(Head(bs), spans, side)
                  \cup blocksToCharRangesReads(Tail(bs), spans, side)

blocksToCharRanges(bs, spans, side) ==
    mergeRanges(CollectRanges(bs, spans, side, <<>>))

----------------------------------------------------------------------------
(* highlightByRanges *)

\* String.prototype.slice(s, e): negative arguments count from the end, both
\* are clamped to the string, and an empty string results when from >= to
slice(text, s, e) ==
    LET len  == Len(text)
        from == IF s < 0 THEN Max(len + s, 0) ELSE Min(s, len)
        to   == IF e < 0 THEN Max(len + e, 0) ELSE Min(e, len)
    IN  IF from >= to THEN <<>> ELSE SubSeq(text, from + 1, to)

\* the cursor is moved to the start of the range instead of its end
HighlightStepCursorAtStart(text, range, w) ==
    LET plain == IF range.start > w.cursor
                 THEN Append(w.nodes, [tag  |-> "Fragment",
                                       text |-> slice(text, w.cursor, range.start)])
                 ELSE w.nodes
    IN  [nodes  |-> Append(plain, [tag  |-> "mark",
                                   text |-> slice(text, range.start, range.end)]),
         cursor |-> range.start]

\* the forEach callback: the plain text before the range, if any, then the
\* marked text of the range; w holds nodes and cursor
HighlightStep(text, range, w) ==
    LET plain == IF range.start > w.cursor
                 THEN Append(w.nodes, [tag  |-> "Fragment",
                                       text |-> slice(text, w.cursor, range.start)])
                 ELSE w.nodes
    IN  [nodes  |-> Append(plain, [tag  |-> "mark",
                                   text |-> slice(text, range.start, range.end)]),
         cursor |-> range.end]

\* ranges.forEach
RECURSIVE HighlightLoop(_, _, _)
HighlightLoop(text, rs, w) ==
    IF rs = <<>> THEN w
    ELSE HighlightLoop(text, Tail(rs), HighlightStep(text, Head(rs), w))

\* the value returned: the string itself for an empty range list, otherwise
\* the array of nodes, with the tail of the text when the cursor stops short
highlightByRanges(text, rs) ==
    IF Len(rs) = 0 THEN [type |-> "string", text |-> text]
    ELSE LET w == HighlightLoop(text, rs, [nodes |-> <<>>, cursor |-> 0])
         IN  [type  |-> "array",
              nodes |-> IF w.cursor < Len(text)
                        THEN Append(w.nodes,
                                    [tag  |-> "Fragment",
                                     text |-> slice(text, w.cursor, Len(text))])
                        ELSE w.nodes]

----------------------------------------------------------------------------
(* The session texts the panel compares *)

\* threshold the panel passes to findMatchingBlocks
PanelMinMatchWords == 3

HumanWords == {<<"A">>, <<"b">>}
AiWords == {<<"a">>, <<"b">>}

\* Array.prototype.join
RECURSIVE Join(_, _)
Join(parts, sep) ==
    IF parts = <<>> THEN <<>>
    ELSE IF Len(parts) = 1 THEN parts[1]
    ELSE parts[1] \o sep \o Join(Tail(parts), sep)

\* texts without any token character
SeparatorOnlyTexts == {<<" ">>, <<"?", "!">>}

\* essays: words separated by single blanks, or no word at all
HumanTexts ==
    {Join(ws, <<" ">>) : ws \in SeqsUpTo(HumanWords, MaxHumanWords)}
        \cup SeparatorOnlyTexts

\* the results of the AI's chat messages, in session order (empty results
\* are filtered out): one-word messages, or messages without a word
AiOutputLists ==
    SeqsUpTo(AiWords, MaxAiMessages)
        \cup {<<t>> : t \in SeparatorOnlyTexts}
        \cup {<<t, u>> : t, u \in SeparatorOnlyTexts}

\* the messages are joined without any separator
totalAiOutputNoSeparator(outputs) == Join(outputs, <<>>)

\* totalAiOutput: aiOutputs.join('\n\n')
totalAiOutput(outputs) == Join(outputs, <<"\n", "\n">>)

----------------------------------------------------------------------------
(* The matcher as a state machine *)

\* no helper call is under study
NoCall == [fn |-> "none"]

\* a call findMatchingBlocks(a, b, minMatchWords) on arbitrary token sequences
Init ==
    /\ a \in SeqsUpTo(Vocabulary, MaxLen)
    /\ b \in SeqsUpTo(Vocabulary, MaxLen)
    /\ minMatchWords \in Thresholds
    /\ pending = InitialPending(a, b)
    /\ blocks = <<>>
    /\ result = <<>>
    /\ pc = "loop"
    /\ humanText = <<>>
    /\ aiText = <<>>
    /\ humanSpans = <<>>
    /\ aiSpans = <<>>
    /\ ranges = [human |-> <<>>, ai |-> <<>>]
    /\ previous = <<>>
    /\ aiOutputs = <<>>
    /\ call = NoCall
    /\ returned = NoCall

\* one iteration of the while loop: pop, search, record, push
Iterate ==
    /\ pc = "loop"
    /\ pending # <<>>
    /\ Len(blocks) < MaxRecorded
    /\ LET w == LoopBody(a, b, minMatchWords,
                         [pending |-> pending, blocks |-> blocks])
       IN  /\ pending' = w.pending
           /\ blocks' = w.blocks
    /\ UNCHANGED <<humanText, aiText, aiOutputs, humanSpans, aiSpans, a, b, minMatchWords,
                   result, ranges, pc, previous, call, returned>>

\* the work list is empty: sort and return
Return ==
    /\ pc = "loop"
    /\ pending = <<>>
    /\ result' = SortByAStart(blocks)
    /\ pc' = "returned"
    /\ UNCHANGED <<humanText, aiText, aiOutputs, humanSpans, aiSpans, a, b, minMatchWords,
                   pending, blocks, ranges, previous, call, returned>>

Next ==
    \/ Iterate
    \/ Return

Spec == Init /\ [][Next]_vars

----------------------------------------------------------------------------
(* The overlapRanges pipeline as a state machine *)

\* the panel is rendered for a session: its two texts are given
PipelineInit ==
    /\ humanText \in HumanTexts
    /\ aiOutputs \in AiOutputLists
    /\ aiText = totalAiOutput(aiOutputs)
    /\ humanSpans = <<>>
    /\ aiSpans = <<>>
    /\ a = <<>>
    /\ b = <<>>
    /\ minMatchWords = PanelMinMatchWords
    /\ pending = <<>>
    /\ blocks = <<>>
    /\ result = <<>>
    /\ ranges = [human |-> <<>>, ai |-> <<>>]
    /\ pc = "start"
    /\ previous = <<>>
    /\ call = NoCall
    /\ returned = NoCall

\* the blocks array outlives the call: it is not created anew
TokenizeKeepsBlocks ==
    /\ pc = "start"
    /\ humanSpans' = tokenizeWithSpans(humanText)
    /\ aiSpans' = tokenizeWithSpans(aiText)
    /\ a' = TokensOf(humanSpans')
    /\ b' = TokensOf(aiSpans')
    /\ pending' = InitialPending(a', b')
    /\ pc' = "loop"
    /\ UNCHANGED <<humanText, aiText, aiOutputs, minMatchWords, blocks, result, ranges,
                   previous, call, returned>>

\* tokenize both texts and enter findMatchingBlocks(humanTokens, aiTokens, 3)
Tokenize ==
    /\ pc = "start"
    /\ humanSpans' = tokenizeWithSpans(humanText)
    /\ aiSpans' = tokenizeWithSpans(aiText)
    /\ a' = TokensOf(humanSpans')
    /\ b' = TokensOf(aiSpans')
    /\ pending' = InitialPending(a', b')
    /\ blocks' = <<>>
    /\ pc' = "loop"
    /\ UNCHANGED <<humanText, aiText, aiOutputs, minMatchWords, result, ranges,
                   previous, call, returned>>

\* map the returned blocks to character ranges on each side
MapRanges ==
    /\ pc = "returned"
    /\ ranges' = [human |-> blocksToCharRanges(result, humanSpans, "a"),
                  ai    |-> blocksToCharRanges(result, aiSpans, "b")]
    /\ pc' = "mapped"
    /\ UNCHANGED <<humanText, aiText, aiOutputs, humanSpans, aiSpans, a, b,
                   minMatchWords, pending, blocks, result,
                   previous, call, returned>>

PipelineNext ==
    \/ Tokenize
    \/ Iterate
    \/ Return
    \/ MapRanges

PipelineSpec == PipelineInit /\ [][PipelineNext]_vars

----------------------------------------------------------------------------
(* The pipeline on two arbitrary texts, with the threshold as a parameter  *)
(* (the panel passes 3), evaluated again on the same texts                 *)

CompareAlphabet == {"a", " "}
CompareTexts == SeqsUpTo(CompareAlphabet, MaxTextLen)

CompareInit ==
    /\ humanText \in CompareTexts
    /\ aiText \in CompareTexts
    /\ minMatchWords \in 1 .. MaxThreshold
    /\ humanSpans = <<>>
    /\ aiSpans = <<>>
    /\ a = <<>>
    /\ b = <<>>
    /\ pending = <<>>
    /\ blocks = <<>>
    /\ result = <<>>
    /\ ranges = [human |-> <<>>, ai |-> <<>>]
    /\ pc = "start"
    /\ previous = <<>>
    /\ aiOutputs = <<>>
    /\ call = NoCall
    /\ returned = NoCall

\* the memo is evaluated again on the same two texts; what the earlier
\* evaluation returned is kept for comparison
Rerun ==
    /\ pc = "mapped"
    /\ Len(previous) < MaxReruns
    /\ previous' = Append(previous, [blocks |-> result, ranges |-> ranges])
    /\ pc' = "start"
    /\ UNCHANGED <<humanText, aiText, aiOutputs, humanSpans, aiSpans, a, b,
                   minMatchWords, pending, blocks, result, ranges,
                   call, returned>>

CompareNext ==
    \/ Tokenize
    \/ Iterate
    \/ Return
    \/ MapRanges
    \/ Rerun

CompareSpec == CompareInit /\ [][CompareNext]_vars

----------------------------------------------------------------------------
(* Notions the properties are stated with *)

\* sa[i .. i+n) and sb[j .. j+n) lie inside the sequences and are equal
IsMatchAt(sa, sb, i, j, n) ==
    /\ 0 <= i /\ i + n <= Len(sa)
    /\ 0 <= j /\ j + n <= Len(sb)
    /\ \A k \in 0 .. n - 1 : sa[i + k + 1] = sb[j + k + 1]

\* every occurrence pair of a shared run of at least m tokens
SharedRuns(sa, sb, m) ==
    {r \in [aStart : 0 .. Len(sa), bStart : 0 .. Len(sb),
            size : Max(m, 1) .. Max(Min(Len(sa), Len(sb)), 1)] :
        IsMatchAt(sa, sb, r.aStart, r.bStart, r.size)}

\* a shared run that cannot be extended by a matching pair at either end
IsMaximalRun(sa, sb, r) ==
    /\ IsMatchAt(sa, sb, r.aStart, r.bStart, r.size)
    /\ ~ IsMatchAt(sa, sb, r.aStart - 1, r.bStart - 1, r.size + 1)
    /\ ~ IsMatchAt(sa, sb, r.aStart, r.bStart, r.size + 1)

\* the token positions of a block on each side
AIndices(blk) == blk.aStart .. blk.aStart + blk.size - 1
BIndices(blk) == blk.bStart .. blk.bStart + blk.size - 1

Returned == pc = "returned"

\* the rectangles left between neighbouring returned blocks
GapRegions(bs, sa, sb) ==
    {[aLo |-> IF k = 0 THEN 0 ELSE bs[k].aStart + bs[k].size,
      aHi |-> IF k = Len(bs) THEN Len(sa) ELSE bs[k + 1].aStart,
      bLo |-> IF k = 0 THEN 0 ELSE bs[k].bStart + bs[k].size,
      bHi |-> IF k = Len(bs) THEN Len(sb) ELSE bs[k + 1].bStart] :
        k \in 0 .. Len(bs)}

RunInside(r, g) ==
    /\ g.aLo <= r.aStart /\ r.aStart + r.size <= g.aHi
    /\ g.bLo <= r.bStart /\ r.bStart + r.size <= g.bHi

----------------------------------------------------------------------------
(* Properties of findMatchingBlocks *)

\* C2: with a threshold >= 1, every returned block lies inside both
\* sequences and its tokens are pairwise equal on the two sides.
C2_BlocksAreMatches ==
    (Returned /\ minMatchWords >= 1) =>
        \A k \in 1 .. Len(result) :
            /\ result[k].size \in Nat
            /\ IsMatchAt(a, b, result[k].aStart, result[k].bStart,
                         result[k].size)

C2_Witness ==
    /\ Returned /\ minMatchWords >= 1
    /\ Len(result) >= 2
    /\ \E k \in 1 .. Len(result) : result[k].size >= 2

\* C3 as stated: every shared run of at least m tokens is covered on both
\* sides by the returned blocks.
C3_AllSharedRunsCovered ==
    (Returned /\ minMatchWords >= 1) =>
        \A r \in SharedRuns(a, b, minMatchWords) :
            /\ \A i \in AIndices(r) :
                   \E k \in 1 .. Len(result) : i \in AIndices(result[k])
            /\ \A j \in BIndices(r) :
                   \E k \in 1 .. Len(result) : j \in BIndices(result[k])

\* C3 amended: no shared run of at least m tokens is left inside a gap
\* between neighbouring returned blocks (before the first, between two
\* neighbours, after the last); runs that cross a returned block may remain.
C3_NoSharedRunLeftInGap ==
    (Returned /\ minMatchWords >= 1) =>
        \A r \in SharedRuns(a, b, minMatchWords) :
            \A g \in GapRegions(result, a, b) : ~ RunInside(r, g)

\* a returned block, and a shared run of >= m tokens it leaves uncovered
C3_Witness ==
    /\ Returned /\ minMatchWords >= 1
    /\ result # <<>>
    /\ \E r \in SharedRuns(a, b, minMatchWords) :
          \A k \in 1 .. Len(result) :
              /\ AIndices(r) \cap AIndices(result[k]) = {}
              /\ BIndices(r) \cap BIndices(result[k]) = {}

\* C4: two distinct recorded or returned blocks never share a token
\* position, neither in a nor in b.
C4_BlocksDisjoint ==
    /\ \A k, l \in 1 .. Len(blocks) :
          k # l => /\ AIndices(blocks[k]) \cap AIndices(blocks[l]) = {}
                   /\ BIndices(blocks[k]) \cap BIndices(blocks[l]) = {}
    /\ \A k, l \in 1 .. Len(result) :
          k # l => /\ AIndices(result[k]) \cap AIndices(result[l]) = {}
                   /\ BIndices(result[k]) \cap BIndices(result[l]) = {}

C4_Witness ==
    /\ Returned
    /\ Len(result) >= 3

\* C5: with a threshold m >= 1 every recorded or returned block has size
\* >= m, no maximal shared run shorter than m is a returned block, and an
\* iteration whose best block is shorter than m records nothing and pushes
\* nothing.
C5_SizeAtLeastThreshold ==
    minMatchWords >= 1 =>
        /\ \A k \in 1 .. Len(blocks) : blocks[k].size >= minMatchWords
        /\ \A k \in 1 .. Len(result) : result[k].size >= minMatchWords
        /\ \A k \in 1 .. Len(result) :
              IsMaximalRun(a, b, result[k]) =>
                  result[k].size >= minMatchWords

C5_ShortRegionDiscarded ==
    (/\ minMatchWords >= 1
     /\ pc = "loop" /\ pending # <<>>
     /\ LET range == pending[Len(pending)]
        IN  \A n \in minMatchWords .. Len(a) :
              \A i \in range.aLo .. range.aHi - n :
                \A j \in range.bLo .. range.bHi - n :
                    ~ IsMatchAt(a, b, i, j, n))
    => (/\ blocks' = blocks
        /\ pending' = SubSeq(pending, 1, Len(pending) - 1))

\* C5: minimum match length, in every state and at every iteration.
C5_MinimumMatchLength ==
    [] C5_SizeAtLeastThreshold /\ [][C5_ShortRegionDiscarded]_vars

\* a two-token shared run was suppressed by the threshold 3
C5_Witness ==
    /\ Returned /\ minMatchWords = 3
    /\ result = <<>>
    /\ \E r \in SharedRuns(a, b, 2) : IsMaximalRun(a, b, r)

\* C6: with a threshold >= 1 the loop ends and the function returns, having
\* recorded at most min(len(a), len(b)) blocks.
C6_AtMostMinLenBlocks ==
    minMatchWords >= 1 =>
        /\ Len(blocks) <= Min(Len(a), Len(b))
        /\ \A k \in 1 .. Len(pending) :
              /\ pending[k].aLo <= pending[k].aHi
              /\ pending[k].bLo <= pending[k].bHi
        /\ (pc = "loop" /\ pending # <<>>) => Len(blocks) < MaxRecorded

\* one for each pending region, plus the tokens it spans in a and in b
RECURSIVE PendingWeight(_)
PendingWeight(ps) ==
    IF ps = <<>> THEN 0
    ELSE (ps[1].aHi - ps[1].aLo) + (ps[1].bHi - ps[1].bLo) + 1
         + PendingWeight(Tail(ps))

\* every iteration strictly decreases the weight of the work list
C6_WorkShrinks ==
    (minMatchWords >= 1 /\ pc' = "loop") =>
        PendingWeight(pending') < PendingWeight(pending)

\* C6: the weight is a natural number that every iteration decreases, and
\* the cap on recorded blocks never stops the loop: the call returns, with
\* at most min(len(a), len(b)) blocks recorded.
C6_Terminates ==
    [] C6_AtMostMinLenBlocks /\ [][C6_WorkShrinks]_vars

C6_Witness ==
    /\ Returned /\ minMatchWords >= 1
    /\ Len(result) = Min(Len(a), Len(b))
    /\ Len(result) >= 2

\* C7: no block of size 0 is ever recorded, whatever the threshold.
C7_NoEmptyBlock ==
    /\ \A k \in 1 .. Len(blocks) : blocks[k].size # 0
    /\ \A k \in 1 .. Len(result) : result[k].size # 0

\* C8: a threshold <= 0 is clamped to 1 or rejected.  Blocks are only ever
\* appended, so a call that is to end with the result of threshold 1 (or
\* with an error and no result) records no block outside that result, and
\* what it returns is that result.
C8_ClampedOrRejected ==
    minMatchWords <= 0 =>
        /\ \A k \in 1 .. Len(blocks) :
              \E l \in 1 .. Len(findMatchingBlocks(a, b, 1)) :
                  blocks[k] = findMatchingBlocks(a, b, 1)[l]
        /\ Returned => result = findMatchingBlocks(a, b, 1)

\* C10: with a threshold m >= 1 the result is empty exactly when a and b
\* share no run of at least m equal tokens, and an empty result maps to
\* empty ranges on both sides.
C10_EmptyIffNoSharedRun ==
    (Returned /\ minMatchWords >= 1) =>
        /\ (result = <<>>) <=> (SharedRuns(a, b, minMatchWords) = {})
        /\ result = <<>> =>
              /\ blocksToCharRanges(result, <<>>, "a") = <<>>
              /\ blocksToCharRanges(result, <<>>, "b") = <<>>

\* an empty result although the sequences share shorter runs
C10_Witness ==
    /\ Returned /\ minMatchWords = 2
    /\ result = <<>>
    /\ SharedRuns(a, b, 1) # {}
    /\ Len(a) >= 3 /\ Len(b) >= 3

----------------------------------------------------------------------------
(* Properties of the overlapRanges pipeline *)

Mapped == pc = "mapped"

\* sorted by start, and a strict gap between neighbours
StrictlyGapped(rs) ==
    \A i \in 1 .. Len(rs) - 1 :
        /\ rs[i].start <= rs[i + 1].start
        /\ rs[i].end < rs[i + 1].start

\* C1: both range lists of the pipeline are sorted by start and neighbours
\* are separated by a strict gap.
C1_RangesStrictlyGapped ==
    Mapped => /\ StrictlyGapped(ranges.human)
              /\ StrictlyGapped(ranges.ai)

C1_Witness ==
    /\ Mapped
    /\ Len(ranges.human) >= 2
    /\ Len(ranges.ai) >= 2

\* the text has no token
NoToken(text) == \A k \in 1 .. Len(text) : ~ IsTokenChar(text[k])

EmptySide == NoToken(humanText) \/ NoToken(aiText)

\* C9: when a text has no token, its token sequence is empty, the matcher
\* records and returns no block, both range lists are empty, and under any
\* threshold >= 1 one iteration on the full region empties the work list
\* without recording a block ...
C9_NothingFound ==
    EmptySide =>
        /\ blocks = <<>>
        /\ result = <<>>
        /\ ranges = [human |-> <<>>, ai |-> <<>>]
        /\ pc # "start" =>
              /\ a = <<>> \/ b = <<>>
              /\ \A m \in 1 .. MaxThreshold :
                    LoopBody(a, b, m, [pending |-> InitialPending(a, b),
                                       blocks  |-> <<>>])
                        = [pending |-> <<>>, blocks |-> <<>>]

\* ... and the first iteration of the pipeline's matcher is its last.
C9_OneRegionExamined ==
    (EmptySide /\ pc = "loop" /\ pending # <<>>) =>
        (pending = InitialPending(a, b) /\ pending' = <<>>)

\* C9: a text without tokens is no error and yields no block and no range.
C9_EmptyInputYieldsNothing ==
    [] C9_NothingFound /\ [][C9_OneRegionExamined]_vars

\* a text of separators only against a text of at least three words
C9_Witness ==
    /\ Mapped
    /\ \/ humanText # <<>> /\ NoToken(humanText) /\ Len(b) >= 3
       \/ aiText # <<>> /\ NoToken(aiText) /\ Len(a) >= 3
    /\ ranges = [human |-> <<>>, ai |-> <<>>]

----------------------------------------------------------------------------
(* Properties of the comparison specification *)

\* 0-based offsets of the token characters of a text
TokenCharOffsets(text) ==
    {i \in 0 .. Len(text) - 1 : IsTokenChar(text[i + 1])}

Lowest(S) == CHOOSE x \in S : \A y \in S : x <= y
Highest(S) == CHOOSE x \in S : \A y \in S : x >= y

\* the one range from the first token character of a text to just after its
\* last token character
WholeTokenRange(text) ==
    <<[start |-> Lowest(TokenCharOffsets(text)),
       end   |-> Highest(TokenCharOffsets(text)) + 1]>>

\* C11: comparing a text of n tokens with itself under a threshold m >= 1
\* yields, when n >= m, the single block {0, 0, n} and on each side the single
\* range from the first token's start to the last token's end (the whole text
\* when it begins and ends with a token character); when n < m it yields no
\* block and no range
C11_SelfComparison ==
    (Mapped /\ aiText = humanText) =>
        IF Len(a) >= minMatchWords
        THEN /\ result = <<[aStart |-> 0, bStart |-> 0, size |-> Len(a)]>>
             /\ ranges.human = WholeTokenRange(humanText)
             /\ ranges.ai = WholeTokenRange(humanText)
             /\ (IsTokenChar(humanText[1]) /\ IsTokenChar(humanText[Len(humanText)]))
                    => ranges.human = <<[start |-> 0, end |-> Len(humanText)]>>
        ELSE /\ result = <<>>
             /\ ranges.human = <<>>
             /\ ranges.ai = <<>>

\* a three-token text compared with itself under threshold 3
C11_Witness ==
    /\ Mapped /\ aiText = humanText
    /\ Len(a) = 3 /\ minMatchWords = 3
    /\ ranges.human # <<>>

\* C13: evaluating the pipeline again on the same two texts yields the same
\* block list and the same range lists as the earlier evaluation
C13_SecondRunIdentical ==
    (Mapped /\ previous # <<>>) =>
        /\ result = previous[Len(previous)].blocks
        /\ ranges = previous[Len(previous)].ranges

\* a second evaluation that found a block has ended
C13_Witness ==
    /\ Mapped /\ previous # <<>>
    /\ result # <<>>
    /\ ranges.human # <<>>
    /\ aiText # humanText

----------------------------------------------------------------------------
(* Interleaved matches *)

\* tokens both sequences may hold, and one token only each of them may hold
SharedVocabulary == {<<"x">>, <<"y">>}
OnlyInA == <<"p">>
OnlyInB == <<"q">>

\* a call findMatchingBlocks(a, b, minMatchWords) with a valid threshold on
\* sequences that share two tokens and have one token of their own each
InterleaveInit ==
    /\ a \in SeqsUpTo(SharedVocabulary \cup {OnlyInA}, MaxLen)
    /\ b \in SeqsUpTo(SharedVocabulary \cup {OnlyInB}, MaxLen)
    /\ minMatchWords \in 1 .. MaxThreshold
    /\ pending = InitialPending(a, b)
    /\ blocks = <<>>
    /\ result = <<>>
    /\ pc = "loop"
    /\ humanText = <<>>
    /\ aiText = <<>>
    /\ humanSpans = <<>>
    /\ aiSpans = <<>>
    /\ ranges = [human |-> <<>>, ai |-> <<>>]
    /\ previous = <<>>
    /\ aiOutputs = <<>>
    /\ call = NoCall
    /\ returned = NoCall

InterleaveSpec == InterleaveInit /\ [][Next]_vars

Positions(s) == 0 .. Len(s) - 1
RunPositions(i, n) == i .. i + n - 1
TokensAt(s, P) == {s[k + 1] : k \in P}

\* positions of sa outside the two runs x and y
FillerPositionsA(sa, x, y) ==
    Positions(sa) \ (RunPositions(x.aStart, x.size) \cup RunPositions(y.aStart, y.size))

FillerPositionsB(sb, x, y) ==
    Positions(sb) \ (RunPositions(x.bStart, x.size) \cup RunPositions(y.bStart, y.size))

\* sa = p1 X p2 Y p3 and sb = q1 X q2 Y q3: x and y locate X and Y, runs of
\* at least m tokens without a common token, and no filler token occurs in
\* both sequences
IsInterleaving(sa, sb, m, x, y) ==
    /\ x.size >= m /\ y.size >= m
    /\ IsMatchAt(sa, sb, x.aStart, x.bStart, x.size)
    /\ IsMatchAt(sa, sb, y.aStart, y.bStart, y.size)
    /\ x.aStart + x.size <= y.aStart
    /\ x.bStart + x.size <= y.bStart
    /\ TokensAt(sa, RunPositions(x.aStart, x.size))
          \cap TokensAt(sa, RunPositions(y.aStart, y.size)) = {}
    /\ TokensAt(sa, FillerPositionsA(sa, x, y)) \cap Range(sb) = {}
    /\ TokensAt(sb, FillerPositionsB(sb, x, y)) \cap Range(sa) = {}

\* p2 and q2 are both empty: X is followed at once by Y in both sequences
Adjacent(x, y) ==
    x.aStart + x.size = y.aStart /\ x.bStart + x.size = y.bStart

\* the token sequence written out as a text, one blank between tokens
SpacedText(s) == Join(s, <<" ">>)

\* no range of rs overlaps the span of a token at one of the positions P
RangesAvoid(rs, spans, P) ==
    \A k \in P : \A i \in 1 .. Len(rs) :
        spans[k + 1].end <= rs[i].start \/ rs[i].end <= spans[k + 1].start

\* the character ranges of the returned blocks contain no filler token
NoFillerInRanges(x, y) ==
    /\ RangesAvoid(blocksToCharRanges(result, tokenizeWithSpans(SpacedText(a)), "a"),
                   tokenizeWithSpans(SpacedText(a)), FillerPositionsA(a, x, y))
    /\ RangesAvoid(blocksToCharRanges(result, tokenizeWithSpans(SpacedText(b)), "b"),
                   tokenizeWithSpans(SpacedText(b)), FillerPositionsB(b, x, y))

\* C12 as stated: whenever a = p1 X p2 Y p3 and b = q1 X q2 Y q3 as above,
\* exactly the two blocks X and Y are returned, in this order, and no block
\* or character range contains a filler token
C12_InterleavedMatches ==
    (Returned /\ minMatchWords >= 1) =>
        \A x \in SharedRuns(a, b, minMatchWords) :
            \A y \in SharedRuns(a, b, minMatchWords) :
                IsInterleaving(a, b, minMatchWords, x, y) =>
                    /\ result = <<x, y>>
                    /\ NoFillerInRanges(x, y)

\* C12 amended: the two blocks X and Y are returned when p2 or q2 is not
\* empty; when both are empty X Y is one shared run and is returned as one
\* block; in both cases no block or character range contains a filler token
C12_InterleavedUnlessAdjacent ==
    (Returned /\ minMatchWords >= 1) =>
        \A x \in SharedRuns(a, b, minMatchWords) :
            \A y \in SharedRuns(a, b, minMatchWords) :
                IsInterleaving(a, b, minMatchWords, x, y) =>
                    /\ result = IF Adjacent(x, y)
                                THEN <<[aStart |-> x.aStart, bStart |-> x.bStart,
                                        size |-> x.size + y.size]>>
                                ELSE <<x, y>>
                    /\ NoFillerInRanges(x, y)

\* two runs separated by a filler in both sequences, after a leading filler
C12_Witness ==
    /\ Returned /\ minMatchWords >= 1
    /\ Len(result) = 2
    /\ result[1].aStart > 0
    /\ \E x \in SharedRuns(a, b, minMatchWords) :
           \E y \in SharedRuns(a, b, minMatchWords) :
               /\ IsInterleaving(a, b, minMatchWords, x, y)
               /\ x.aStart + x.size < y.aStart
               /\ x.bStart + x.size < y.bStart

----------------------------------------------------------------------------
(* mergeRanges called on its own *)

\* spans with 0 <= start <= end <= MaxOffset
WellFormedSpans ==
    {sp \in [start : 0 .. MaxOffset, end : 0 .. MaxOffset] : sp.start <= sp.end}

\* a call mergeRanges(ranges) on an arbitrary list of spans, in any order
MergeInit ==
    /\ \E rs \in SeqsUpTo(WellFormedSpans, MaxSpans) :
           call = [fn |-> "mergeRanges", ranges |-> rs]
    /\ returned = NoCall
    /\ pc = "call"
    /\ humanText = <<>>
    /\ aiText = <<>>
    /\ humanSpans = <<>>
    /\ aiSpans = <<>>
    /\ a = <<>>
    /\ b = <<>>
    /\ minMatchWords = PanelMinMatchWords
    /\ pending = <<>>
    /\ blocks = <<>>
    /\ result = <<>>
    /\ ranges = [human |-> <<>>, ai |-> <<>>]
    /\ previous = <<>>
    /\ aiOutputs = <<>>

\* the call runs: its return value, and the caller's array as the call
\* leaves it
MergeCall ==
    /\ pc = "call"
    /\ call.fn = "mergeRanges"
    /\ returned' = [fn    |-> "mergeRanges",
                    value |-> mergeRanges(call.ranges),
                    input |-> InputAfterMerge(call.ranges)]
    /\ pc' = "done"
    /\ UNCHANGED <<humanText, aiText, aiOutputs, humanSpans, aiSpans, a, b,
                   minMatchWords, pending, blocks, result, ranges,
                   previous, call>>

MergeNext == MergeCall

MergeSpec == MergeInit /\ [][MergeNext]_vars

Merged == pc = "done" /\ returned.fn = "mergeRanges"

\* C14: for every list of spans with start <= end, in any order, the output of
\* mergeRanges is sorted by start with out[i].end < out[i + 1].start, and the
\* empty list gives the empty list
C14_OutputSortedAndGapped ==
    Merged =>
        /\ \A i \in 1 .. Len(returned.value) - 1 :
               /\ returned.value[i].start <= returned.value[i + 1].start
               /\ returned.value[i].end < returned.value[i + 1].start
        /\ (call.ranges = <<>>) => (returned.value = <<>>)

\* three spans given out of order, two of them touching, are merged into two
C14_Witness ==
    /\ Merged
    /\ Len(call.ranges) = 3
    /\ call.ranges[1].start > call.ranges[2].start
    /\ \E i, j \in 1 .. 3 : call.ranges[i].end = call.ranges[j].start /\ i # j
    /\ Len(returned.value) = 2

\* character positions covered by a list of half-open spans
Covered(rs) ==
    UNION {rs[i].start .. rs[i].end - 1 : i \in 1 .. Len(rs)}

\* the maximal runs of consecutive positions of P, as half-open spans
MaximalRuns(P) ==
    {sp \in [start : P, end : {q + 1 : q \in P}] :
        /\ sp.start < sp.end
        /\ \A q \in sp.start .. sp.end - 1 : q \in P
        /\ sp.start - 1 \notin P
        /\ sp.end \notin P}

NonEmptySpans(rs) == \A i \in 1 .. Len(rs) : rs[i].start < rs[i].end

\* C15: for spans with start < end the positions covered by the output are
\* exactly those covered by the input; the output spans are the maximal
\* covered runs, so spans are joined into {min start, max end} exactly when
\* the later start is <= the earlier end, and spans a gap of at least one
\* position apart stay separate
C15_CoveragePreserved ==
    (Merged /\ NonEmptySpans(call.ranges)) =>
        /\ Covered(returned.value) = Covered(call.ranges)
        /\ {returned.value[i] : i \in 1 .. Len(returned.value)}
               = MaximalRuns(Covered(call.ranges))
        /\ Len(returned.value) = Cardinality(MaximalRuns(Covered(call.ranges)))
        /\ Len(call.ranges) = 2 =>
               LET earlier == call.ranges[SortedHeadIndex(call.ranges)]
                   later   == call.ranges[3 - SortedHeadIndex(call.ranges)]
               IN  IF later.start <= earlier.end
                   THEN returned.value =
                            <<[start |-> earlier.start,
                               end   |-> Max(earlier.end, later.end)]>>
                   ELSE returned.value = <<earlier, later>>

\* three non-empty spans: one lies inside another, the third a gap apart
C15_Witness ==
    /\ Merged /\ NonEmptySpans(call.ranges)
    /\ Len(call.ranges) = 3
    /\ \E i, j \in 1 .. 3 :
           /\ i # j
           /\ call.ranges[i].start < call.ranges[j].start
           /\ call.ranges[j].end <= call.ranges[i].end
    /\ Len(returned.value) = 2

\* the orders in which a list can be given
Orders(n) ==
    {f \in [1 .. n -> 1 .. n] : \A i, j \in 1 .. n : f[i] = f[j] => i = j}

\* C16: mergeRanges returns the same list for every order in which the same
\* spans are given, spans that share a start included
C16_OrderInsensitive ==
    Merged =>
        \A f \in Orders(Len(call.ranges)) :
            mergeRanges([i \in 1 .. Len(call.ranges) |-> call.ranges[f[i]]])
                = returned.value

\* three spans, two of them with the same start and different ends
C16_Witness ==
    /\ Merged
    /\ Len(call.ranges) = 3
    /\ call.ranges[1].start = call.ranges[3].start
    /\ call.ranges[1].end < call.ranges[3].end
    /\ call.ranges[2].start < call.ranges[1].start
    /\ Len(returned.value) = 2

\* C17: after mergeRanges returns, the input array and every span object in
\* it hold the start and end they held before the call
C17_InputUnchanged ==
    Merged => returned.input = call.ranges

----------------------------------------------------------------------------
(* highlightByRanges called on its own *)

\* the range lists a text can be rendered with: sorted, strictly gapped and
\* inside the text
RangeListsOf(text) ==
    {rs \in SeqsUpTo({sp \in [start : 0 .. Len(text), end : 0 .. Len(text)] :
                          sp.start <= sp.end}, MaxMarks) :
        StrictlyGapped(rs)}

\* a call highlightByRanges(text, ranges)
HighlightInit ==
    /\ \E text \in CompareTexts : \E rs \in RangeListsOf(text) :
           call = [fn |-> "highlightByRanges", text |-> text, ranges |-> rs]
    /\ returned = NoCall
    /\ pc = "call"
    /\ humanText = <<>>
    /\ aiText = <<>>
    /\ humanSpans = <<>>
    /\ aiSpans = <<>>
    /\ a = <<>>
    /\ b = <<>>
    /\ minMatchWords = PanelMinMatchWords
    /\ pending = <<>>
    /\ blocks = <<>>
    /\ result = <<>>
    /\ ranges = [human |-> <<>>, ai |-> <<>>]
    /\ previous = <<>>
    /\ aiOutputs = <<>>

HighlightCall ==
    /\ pc = "call"
    /\ call.fn = "highlightByRanges"
    /\ returned' = [fn    |-> "highlightByRanges",
                    value |-> highlightByRanges(call.text, call.ranges)]
    /\ pc' = "done"
    /\ UNCHANGED <<humanText, aiText, aiOutputs, humanSpans, aiSpans, a, b,
                   minMatchWords, pending, blocks, result, ranges,
                   previous, call>>

HighlightNext == HighlightCall

HighlightSpec == HighlightInit /\ [][HighlightNext]_vars

Highlighted == pc = "done" /\ returned.fn = "highlightByRanges"

\* the texts of the nodes, concatenated in order
RECURSIVE ConcatNodes(_)
ConcatNodes(nodes) ==
    IF nodes = <<>> THEN <<>>
    ELSE Head(nodes).text \o ConcatNodes(Tail(nodes))

\* the text a rendered value shows
RenderedText(value) ==
    IF value.type = "string" THEN value.text ELSE ConcatNodes(value.nodes)

\* C18: for every text and every sorted, strictly gapped list of ranges
\* inside it, the segments highlightByRanges returns concatenate to the text,
\* and with an empty list the result is the text itself
C18_RoundTrip ==
    Highlighted =>
        /\ RenderedText(returned.value) = call.text
        /\ (call.ranges = <<>>) =>
               returned.value = [type |-> "string", text |-> call.text]

\* plain text, a mark, plain text, a mark and a tail
C18_Witness ==
    /\ Highlighted
    /\ Len(call.ranges) = 2
    /\ returned.value.type = "array"
    /\ Len(returned.value.nodes) = 5

----------------------------------------------------------------------------
(* blocksToCharRanges called on its own *)

\* blocks of size >= 0 whose indices may lie outside any token sequence
AnyBlocks ==
    {blk \in [aStart : -1 .. MaxTokenIndex, bStart : -1 .. MaxTokenIndex + 1,
              size : 0 .. MaxBlockSize] :
        blk.bStart \in {blk.aStart, blk.aStart + 1}}

\* lists of no, one or two such blocks
AnyBlockLists ==
    {<<>>} \cup {<<x>> : x \in AnyBlocks}
           \cup {<<x, y>> : x \in AnyBlocks, y \in AnyBlocks}

\* a call blocksToCharRanges(blocks, spans, side) with the token spans of an
\* arbitrary text and blocks that need not fit them
MapperInit ==
    /\ \E text \in CompareTexts : \E bs \in AnyBlockLists :
         \E side \in {"a", "b"} :
           call = [fn |-> "blocksToCharRanges", text |-> text,
                   blocks |-> bs, spans |-> tokenizeWithSpans(text),
                   side |-> side]
    /\ returned = NoCall
    /\ pc = "call"
    /\ humanText = <<>>
    /\ aiText = <<>>
    /\ humanSpans = <<>>
    /\ aiSpans = <<>>
    /\ a = <<>>
    /\ b = <<>>
    /\ minMatchWords = PanelMinMatchWords
    /\ pending = <<>>
    /\ blocks = <<>>
    /\ result = <<>>
    /\ ranges = [human |-> <<>>, ai |-> <<>>]
    /\ previous = <<>>
    /\ aiOutputs = <<>>

\* the call runs: it throws a TypeError or returns the merged ranges
MapperCall ==
    /\ pc = "call"
    /\ call.fn = "blocksToCharRanges"
    /\ returned' =
          [fn    |-> "blocksToCharRanges",
           threw |-> blocksToCharRangesThrows(call.blocks, call.spans, call.side),
           reads |-> blocksToCharRangesReads(call.blocks, call.spans, call.side),
           value |-> IF blocksToCharRangesThrows(call.blocks, call.spans, call.side)
                     THEN <<>>
                     ELSE blocksToCharRanges(call.blocks, call.spans, call.side)]
    /\ pc' = "done"
    /\ UNCHANGED <<humanText, aiText, aiOutputs, humanSpans, aiSpans, a, b,
                   minMatchWords, pending, blocks, result, ranges,
                   previous, call>>

MapperNext == MapperCall

MapperSpec == MapperInit /\ [][MapperNext]_vars

MapperDone == pc = "done" /\ returned.fn = "blocksToCharRanges"

\* the first and the last token index of the block lie inside spans
InBounds(block, spans, side) ==
    /\ 0 <= TokenStart(block, side)
    /\ TokenStart(block, side) < Len(spans)
    /\ 0 <= TokenStart(block, side) + block.size - 1
    /\ TokenStart(block, side) + block.size - 1 < Len(spans)

\* C19: for every list of blocks with size >= 0 and every token-span
\* sequence, blocksToCharRanges raises no exception and reads only indices in
\* [0, len(spans))
C19_NeverFails ==
    MapperDone =>
        /\ ~ returned.threw
        /\ returned.reads \subseteq 0 .. Len(call.spans) - 1

\* the span a block of size >= 1 stands for: from the first character of its
\* first token to just after the last character of its last token
ExpectedSpan(block, spans, side) ==
    [start |-> spans[TokenStart(block, side) + 1].start,
     end   |-> spans[TokenStart(block, side) + block.size].end]

\* the blocks of a list that lie inside spans
BlocksInBounds(bs, spans, side) ==
    {k \in 1 .. Len(bs) : InBounds(bs[k], spans, side)}

\* C20: when every block has size >= 1, each block in bounds contributes the
\* span from spans[s].start to spans[s + size - 1].end and the other blocks
\* contribute nothing; the span begins and ends with a token character
C20_BlockSpans ==
    (MapperDone /\ \A k \in 1 .. Len(call.blocks) : call.blocks[k].size >= 1) =>
        /\ ~ returned.threw
        /\ Covered(returned.value) =
               UNION {Covered(<<ExpectedSpan(call.blocks[k], call.spans, call.side)>>) :
                         k \in BlocksInBounds(call.blocks, call.spans, call.side)}
        /\ \A k \in BlocksInBounds(call.blocks, call.spans, call.side) :
               LET sp == ExpectedSpan(call.blocks[k], call.spans, call.side)
               IN  /\ \E i \in 1 .. Len(returned.value) :
                          /\ returned.value[i].start <= sp.start
                          /\ sp.end <= returned.value[i].end
                   /\ sp.start < sp.end
                   /\ IsTokenChar(call.text[sp.start + 1])
                   /\ IsTokenChar(call.text[sp.end])
                   /\ Len(call.blocks) = 1 => returned.value = <<sp>>

\* a block of two tokens and a block of one token, both in bounds and on
\* side b, and a text with separators before, between and after the tokens
C20_Witness ==
    /\ MapperDone
    /\ call.side = "b"
    /\ Len(call.blocks) = 2
    /\ call.blocks[1].size = 2 /\ call.blocks[2].size = 1
    /\ BlocksInBounds(call.blocks, call.spans, call.side) = {1, 2}
    /\ Len(returned.value) = 2
    /\ returned.value[1].end - returned.value[1].start >= 3

----------------------------------------------------------------------------
(* tokenizeWithSpans called on its own *)

\* a lower-case letter, an upper-case letter, a digit, the apostrophe and two
\* separators
TokenizerAlphabet == {"a", "B", "7", "'", " ", "."}

\* a call tokenizeWithSpans(text) on an arbitrary text
TokenizerInit ==
    /\ \E text \in SeqsUpTo(TokenizerAlphabet, MaxTextLen) :
           call = [fn |-> "tokenizeWithSpans", text |-> text]
    /\ returned = NoCall
    /\ pc = "call"
    /\ humanText = <<>>
    /\ aiText = <<>>
    /\ humanSpans = <<>>
    /\ aiSpans = <<>>
    /\ a = <<>>
    /\ b = <<>>
    /\ minMatchWords = PanelMinMatchWords
    /\ pending = <<>>
    /\ blocks = <<>>
    /\ result = <<>>
    /\ ranges = [human |-> <<>>, ai |-> <<>>]
    /\ previous = <<>>
    /\ aiOutputs = <<>>

TokenizerCall ==
    /\ pc = "call"
    /\ call.fn = "tokenizeWithSpans"
    /\ returned' = [fn    |-> "tokenizeWithSpans",
                    value |-> tokenizeWithSpans(call.text)]
    /\ pc' = "done"
    /\ UNCHANGED <<humanText, aiText, aiOutputs, humanSpans, aiSpans, a, b,
                   minMatchWords, pending, blocks, result, ranges,
                   previous, call>>

TokenizerNext == TokenizerCall

TokenizerSpec == TokenizerInit /\ [][TokenizerNext]_vars

Tokenized == pc = "done" /\ returned.fn = "tokenizeWithSpans"

\* C21: every character of the class [a-zA-Z0-9'] lies in exactly one token's
\* [start, end), every character of a token's span is of the class, the
\* characters just before start and at end, when they exist, are not, the
\* token is text[start:end] lower-cased, and a text without a character of
\* the class yields the empty sequence
C21_OneTokenPerMaximalRun ==
    Tokenized =>
        LET text == call.text
            toks == returned.value
        IN  /\ \A p \in TokenCharOffsets(text) :
                   Cardinality({k \in 1 .. Len(toks) :
                                   toks[k].start <= p /\ p < toks[k].end}) = 1
            /\ \A k \in 1 .. Len(toks) :
                   /\ 0 <= toks[k].start /\ toks[k].end <= Len(text)
                   /\ \A p \in toks[k].start .. toks[k].end - 1 :
                          IsTokenChar(text[p + 1])
                   /\ toks[k].start = 0 \/ ~ IsTokenChar(text[toks[k].start])
                   /\ toks[k].end = Len(text)
                          \/ ~ IsTokenChar(text[toks[k].end + 1])
                   /\ Len(toks[k].token) = toks[k].end - toks[k].start
                   /\ \A i \in 1 .. Len(toks[k].token) :
                          /\ toks[k].token[i] = LowerChar(text[toks[k].start + i])
                          /\ toks[k].token[i] \notin Range(UpperCaseLetters)
            /\ (TokenCharOffsets(text) = {}) => (toks = <<>>)

\* one token between two separators, made of an upper-case letter, a digit
\* and the apostrophe
C21_Witness ==
    /\ Tokenized
    /\ Len(returned.value) = 1
    /\ returned.value[1].start = 1
    /\ returned.value[1].token = <<"b", "7", "'">>
    /\ Len(call.text) > returned.value[1].end

\* C22: 0 <= start < end <= len(text) for every token, and consecutive
\* tokens satisfy tokens[i].end < tokens[i + 1].start
C22_StrictlyOrdered ==
    Tokenized =>
        /\ \A k \in 1 .. Len(returned.value) :
               /\ 0 <= returned.value[k].start
               /\ returned.value[k].start < returned.value[k].end
               /\ returned.value[k].end <= Len(call.text)
        /\ \A k \in 1 .. Len(returned.value) - 1 :
               returned.value[k].end < returned.value[k + 1].start

\* three one-character tokens, one separator between neighbours
C22_Witness ==
    /\ Tokenized
    /\ Len(returned.value) = 3
    /\ returned.value[1].end + 1 = returned.value[2].start
    /\ returned.value[3].end = Len(call.text)

----------------------------------------------------------------------------
(* The message separators of the AI text, on the pipeline specification *)

\* offset in the joined text at which the k-th message starts
RECURSIVE MessageStart(_, _)
MessageStart(outputs, k) ==
    IF k = 1 THEN 0
    ELSE MessageStart(outputs, k - 1) + Len(outputs[k - 1]) + 2

\* offsets of the characters of the separators between the messages
SeparatorOffsets(outputs) ==
    UNION {{MessageStart(outputs, k) - 2, MessageStart(outputs, k) - 1} :
              k \in 2 .. Len(outputs)}

\* the tokens of the messages, message after message
RECURSIVE TokensOfMessages(_)
TokensOfMessages(outputs) ==
    IF outputs = <<>> THEN <<>>
    ELSE TokensOf(tokenizeWithSpans(Head(outputs)))
             \o TokensOfMessages(Tail(outputs))

\* the half-open span holds the offset p
Holds(span, p) == span.start <= p /\ p < span.end

\* C23 as stated: no AI-side range contains a message separator, so no
\* reported block holds tokens of two different messages
C23_NoRangeAcrossMessages ==
    Mapped =>
        \A i \in 1 .. Len(ranges.ai) :
            \A p \in SeparatorOffsets(aiOutputs) : ~ Holds(ranges.ai[i], p)

\* C23 amended: the separator keeps the tokens of different messages apart:
\* the AI token sequence is the tokens of the messages one after the other,
\* and no token span contains a separator character
C23_NoTokenAcrossMessages ==
    Mapped =>
        /\ b = TokensOfMessages(aiOutputs)
        /\ \A k \in 1 .. Len(aiSpans) :
               \A p \in SeparatorOffsets(aiOutputs) : ~ Holds(aiSpans[k], p)

\* a block of the pipeline that runs over the tokens of several messages
C23_Witness ==
    /\ Mapped
    /\ Len(aiOutputs) >= 3
    /\ b = TokensOfMessages(aiOutputs)
    /\ \E i \in 1 .. Len(ranges.ai) :
           \E p \in SeparatorOffsets(aiOutputs) : Holds(ranges.ai[i], p)

----------------------------------------------------------------------------
(* Order of the returned blocks, on the matcher specification *)

\* C24: for m >= 1 the returned blocks are in ascending aStart order and
\* their aStart are pairwise distinct, so the set of blocks fixes the order
C24_AscendingDistinctAStart ==
    (Returned /\ minMatchWords >= 1) =>
        \A i \in 1 .. Len(result) : \A j \in 1 .. Len(result) :
            i < j => result[i].aStart < result[j].aStart

\* two blocks that were recorded in descending aStart order
C24_Witness ==
    /\ Returned /\ minMatchWords >= 1
    /\ Len(blocks) = 2
    /\ blocks[1].aStart > blocks[2].aStart
    /\ result = <<blocks[2], blocks[1]>>

----------------------------------------------------------------------------
(* findLongestCommonBlock called on its own *)

RegionVocabulary == {<<"x">>, <<"y">>}

\* the regions of two sequences: aLo <= aHi and bLo <= bHi inside them
RegionsOf(sa, sb) ==
    {r \in [aLo : 0 .. Len(sa), aHi : 0 .. Len(sa),
            bLo : 0 .. Len(sb), bHi : 0 .. Len(sb)] :
        r.aLo <= r.aHi /\ r.bLo <= r.bHi}

\* a call findLongestCommonBlock(a, b, aLo, aHi, bLo, bHi) on an arbitrary
\* region of two arbitrary sequences
RegionInit ==
    /\ a \in SeqsUpTo(RegionVocabulary, MaxRegionLen)
    /\ b \in SeqsUpTo(RegionVocabulary, MaxRegionLen)
    /\ \E r \in RegionsOf(a, b) :
           call = [fn |-> "findLongestCommonBlock", region |-> r]
    /\ returned = NoCall
    /\ pc = "call"
    /\ humanText = <<>>
    /\ aiText = <<>>
    /\ aiOutputs = <<>>
    /\ humanSpans = <<>>
    /\ aiSpans = <<>>
    /\ minMatchWords = PanelMinMatchWords
    /\ pending = <<>>
    /\ blocks = <<>>
    /\ result = <<>>
    /\ ranges = [human |-> <<>>, ai |-> <<>>]
    /\ previous = <<>>

RegionCall ==
    /\ pc = "call"
    /\ call.fn = "findLongestCommonBlock"
    /\ returned' = [fn    |-> "findLongestCommonBlock",
                    value |-> findLongestCommonBlock(a, b,
                                  call.region.aLo, call.region.aHi,
                                  call.region.bLo, call.region.bHi)]
    /\ pc' = "done"
    /\ UNCHANGED <<humanText, aiText, aiOutputs, humanSpans, aiSpans, a, b,
                   minMatchWords, pending, blocks, result, ranges,
                   previous, call>>

RegionNext == RegionCall

RegionSpec == RegionInit /\ [][RegionNext]_vars

RegionDone == pc = "done" /\ returned.fn = "findLongestCommonBlock"

\* the matching runs of n >= 1 tokens that lie inside the region r
RunsInRegion(sa, sb, r) ==
    {run \in [aStart : r.aLo .. r.aHi, bStart : r.bLo .. r.bHi,
              size : 1 .. Max(Min(r.aHi - r.aLo, r.bHi - r.bLo), 1)] :
        /\ run.aStart + run.size <= r.aHi
        /\ run.bStart + run.size <= r.bHi
        /\ IsMatchAt(sa, sb, run.aStart, run.bStart, run.size)}

\* C25: the block returned for a region lies inside the region, its tokens
\* match pairwise, no matching run inside the region is longer, it cannot be
\* extended inside the region by a matching pair at either end, and an empty
\* region gives size 0
C25_LongestInRegion ==
    RegionDone =>
        LET r    == call.region
            best == returned.value
        IN  /\ best.size >= 0
            /\ r.aLo <= best.aStart /\ best.aStart + best.size <= r.aHi
            /\ r.bLo <= best.bStart /\ best.bStart + best.size <= r.bHi
            /\ IsMatchAt(a, b, best.aStart, best.bStart, best.size)
            /\ \A run \in RunsInRegion(a, b, r) : run.size <= best.size
            /\ ~ /\ r.aLo < best.aStart /\ r.bLo < best.bStart
                 /\ a[best.aStart] = b[best.bStart]
            /\ ~ /\ best.aStart + best.size < r.aHi
                 /\ best.bStart + best.size < r.bHi
                 /\ a[best.aStart + best.size + 1] = b[best.bStart + best.size + 1]
            /\ (r.aLo = r.aHi \/ r.bLo = r.bHi) => best.size = 0

\* a run of two tokens found in a region that cuts off a longer run of the
\* whole sequences
C25_Witness ==
    /\ RegionDone
    /\ returned.value.size = 2
    /\ call.region.aLo = 1 /\ call.region.bLo = 1
    /\ a[1] = b[1]

\* the runs of the region that are as long as the returned block
LongestRuns ==
    {run \in RunsInRegion(a, b, call.region) :
        run.size = returned.value.size}

\* C26: among the matching runs of the maximum size inside the region the
\* returned one ends first in row-major order: at the lowest end index in a
\* and, among those, at the lowest end index in b
C26_FirstInRowMajorOrder ==
    RegionDone =>
        \A run \in LongestRuns :
            \/ returned.value.aStart + returned.value.size
                   < run.aStart + run.size
            \/ /\ returned.value.aStart + returned.value.size
                      = run.aStart + run.size
               /\ returned.value.bStart + returned.value.size
                      <= run.bStart + run.size

\* three or more longest runs of two tokens, one of them ending in the same
\* row as the returned one and one in a later row
C26_Witness ==
    /\ RegionDone
    /\ returned.value.size = 2
    /\ \E r1, r2 \in LongestRuns :
           /\ r1.aStart = returned.value.aStart
           /\ r1.bStart > returned.value.bStart
           /\ r2.aStart > returned.value.aStart
           /\ r2.bStart < returned.value.bStart

----------------------------------------------------------------------------
(* findMatchingBlocks with the pending regions taken in any order *)

\* the work list with its k-th region moved to the top
MoveToTop(ps, k) ==
    SubSeq(ps, 1, k - 1) \o SubSeq(ps, k + 1, Len(ps)) \o <<ps[k]>>

\* sequences long enough for a block with a block on either side of it
AnyOrderInit ==
    /\ a \in SeqsUpTo(RegionVocabulary, MaxAnyOrderLen)
    /\ b \in SeqsUpTo(RegionVocabulary, MaxAnyOrderLen)
    /\ minMatchWords \in 1 .. MaxThreshold
    /\ pending = InitialPending(a, b)
    /\ blocks = <<>>
    /\ result = <<>>
    /\ pc = "loop"
    /\ humanText = <<>>
    /\ aiText = <<>>
    /\ aiOutputs = <<>>
    /\ humanSpans = <<>>
    /\ aiSpans = <<>>
    /\ ranges = [human |-> <<>>, ai |-> <<>>]
    /\ previous = <<>>
    /\ call = NoCall
    /\ returned = NoCall

\* one iteration of the while loop on a region taken from any position of
\* the work list: the last one as pop() does, the first one as a queue does,
\* or any other
IterateAny ==
    /\ pc = "loop"
    /\ pending # <<>>
    /\ \E k \in 1 .. Len(pending) :
          LET w == LoopBody(a, b, minMatchWords,
                            [pending |-> MoveToTop(pending, k),
                             blocks  |-> blocks])
          IN  /\ pending' = w.pending
              /\ blocks' = w.blocks
    /\ UNCHANGED <<humanText, aiText, aiOutputs, humanSpans, aiSpans, a, b,
                   minMatchWords, result, ranges, pc, previous, call,
                   returned>>

AnyOrderNext ==
    \/ IterateAny
    \/ Return

AnyOrderSpec == AnyOrderInit /\ [][AnyOrderNext]_vars

\* the recursive form: the region before the block, the block, the region
\* after it
RECURSIVE Descend(_, _, _, _)
Descend(sa, sb, m, range) ==
    LET best == findLongestCommonBlock(sa, sb, range.aLo, range.aHi,
                                       range.bLo, range.bHi)
    IN  IF best.size < m THEN <<>>
        ELSE Descend(sa, sb, m, SubRegions(range, best)[1])
                 \o <<best>>
                 \o Descend(sa, sb, m, SubRegions(range, best)[2])

\* C27: whatever the order in which the pending regions are taken, the list
\* returned is the list the last-in-first-out loop returns, and it is the
\* list of the recursive descent
C27_OrderOfWorkListIrrelevant ==
    Returned =>
        /\ result = findMatchingBlocks(a, b, minMatchWords)
        /\ result = Descend(a, b, minMatchWords, InitialPending(a, b)[1])

\* three blocks recorded in an order the last-in-first-out loop does not
\* produce
C27_Witness ==
    /\ Returned
    /\ Len(result) = 3
    /\ blocks # RunLoop(a, b, minMatchWords,
                        [pending |-> InitialPending(a, b),
                         blocks  |-> <<>>])

----------------------------------------------------------------------------
(* The work list of findMatchingBlocks, on the matcher specification *)

\* a-indices and b-indices of a pending region
RegionAIndices(r) == r.aLo .. r.aHi - 1
RegionBIndices(r) == r.bLo .. r.bHi - 1

\* the a-index sets, and the b-index sets, of the pending regions followed by
\* those of the recorded blocks
WorkAIndexSets ==
    [k \in 1 .. Len(pending) |-> RegionAIndices(pending[k])]
        \o [k \in 1 .. Len(blocks) |-> AIndices(blocks[k])]

WorkBIndexSets ==
    [k \in 1 .. Len(pending) |-> RegionBIndices(pending[k])]
        \o [k \in 1 .. Len(blocks) |-> BIndices(blocks[k])]

PairwiseDisjoint(sets) ==
    \A i \in 1 .. Len(sets) : \A j \in 1 .. Len(sets) :
        i # j => sets[i] \cap sets[j] = {}

\* every pending region lies inside the sequences, and the pending regions
\* and the recorded blocks are pairwise disjoint in a and in b
C28_RegionsInsideAndDisjoint ==
    (pc = "loop" /\ minMatchWords >= 1) =>
        /\ \A k \in 1 .. Len(pending) :
               /\ 0 <= pending[k].aLo /\ pending[k].aLo <= pending[k].aHi
               /\ pending[k].aHi <= Len(a)
               /\ 0 <= pending[k].bLo /\ pending[k].bLo <= pending[k].bHi
               /\ pending[k].bHi <= Len(b)
        /\ PairwiseDisjoint(WorkAIndexSets)
        /\ PairwiseDisjoint(WorkBIndexSets)

\* an iteration that pushes sub-regions pushes regions that are strictly
\* smaller, in a and in b, than the region it popped
C28_PushedRegionsSmaller ==
    (pc = "loop" /\ minMatchWords >= 1 /\ pending # <<>>) =>
        \A k \in Len(pending) .. Len(pending') :
            /\ pending'[k].aHi - pending'[k].aLo
                   < pending[Len(pending)].aHi - pending[Len(pending)].aLo
            /\ pending'[k].bHi - pending'[k].bLo
                   < pending[Len(pending)].bHi - pending[Len(pending)].bLo

\* C28: the work-list invariant of findMatchingBlocks for m >= 1, in every
\* state of the loop and at every iteration
C28_WorkListInvariant ==
    [] C28_RegionsInsideAndDisjoint /\ [][C28_PushedRegionsSmaller]_vars

\* a recorded block between two pending regions that both hold tokens of
\* both sequences
C28_Witness ==
    /\ pc = "loop" /\ minMatchWords >= 1
    /\ Len(blocks) = 1
    /\ Len(pending) = 2
    /\ \A k \in 1 .. 2 :
           RegionAIndices(pending[k]) # {} /\ RegionBIndices(pending[k]) # {}

----------------------------------------------------------------------------
(* The returned blocks as an alignment, on the matcher specification *)

\* C29: for m >= 1 each returned block ends, in a and in b, at or before the
\* start of the next one, so bStart increases strictly along the list, and
\* no two consecutive blocks touch in both sequences at once
C29_OrderPreservingAlignment ==
    (Returned /\ minMatchWords >= 1) =>
        \A k \in 1 .. Len(result) - 1 :
            /\ result[k].aStart + result[k].size <= result[k + 1].aStart
            /\ result[k].bStart + result[k].size <= result[k + 1].bStart
            /\ result[k].bStart < result[k + 1].bStart
            /\ ~ /\ result[k].aStart + result[k].size = result[k + 1].aStart
                 /\ result[k].bStart + result[k].size = result[k + 1].bStart

\* two consecutive blocks that touch in a and are apart in b, the first of
\* two tokens
C29_Witness ==
    /\ Returned /\ minMatchWords >= 1
    /\ Len(result) = 2
    /\ result[1].size = 2
    /\ result[1].aStart + result[1].size = result[2].aStart
    /\ result[1].bStart + result[1].size < result[2].bStart

----------------------------------------------------------------------------
(* Blocks and ranges of the pipeline, one to one *)

\* the tokens whose spans lie inside the range, in order
TokensInRange(spans, range) ==
    LET Inside(sp) == range.start <= sp.start /\ sp.end <= range.end
    IN  TokensOf(SelectSeq(spans, Inside))

\* the range starts at the start of a token and ends at the end of a token
OnTokenBounds(spans, range) ==
    /\ \E k \in 1 .. Len(spans) : spans[k].start = range.start
    /\ \E k \in 1 .. Len(spans) : spans[k].end = range.end

\* C30: in the pipeline each side has exactly one range per returned block,
\* the k-th human range and the k-th AI range are those of the k-th block and
\* hold the same token sequence of at least 3 tokens, and every range starts
\* at a token start and ends at a token end of its own text
C30_OneRangePerBlock ==
    Mapped =>
        /\ Len(ranges.human) = Len(result)
        /\ Len(ranges.ai) = Len(result)
        /\ \A k \in 1 .. Len(result) :
               /\ ranges.human[k].start = humanSpans[result[k].aStart + 1].start
               /\ ranges.human[k].end
                      = humanSpans[result[k].aStart + result[k].size].end
               /\ ranges.ai[k].start = aiSpans[result[k].bStart + 1].start
               /\ ranges.ai[k].end
                      = aiSpans[result[k].bStart + result[k].size].end
               /\ TokensInRange(humanSpans, ranges.human[k])
                      = TokensInRange(aiSpans, ranges.ai[k])
               /\ Len(TokensInRange(humanSpans, ranges.human[k])) >= 3
               /\ Len(TokensInRange(humanSpans, ranges.human[k]))
                      = result[k].size
               /\ OnTokenBounds(humanSpans, ranges.human[k])
               /\ OnTokenBounds(aiSpans, ranges.ai[k])

\* two blocks whose AI-side tokens follow each other without a token between
\* them, and a human text with an upper-case word inside a block
C30_Witness ==
    /\ Mapped
    /\ Len(result) = 2
    /\ result[1].bStart + result[1].size = result[2].bStart
    /\ Len(ranges.ai) = 2
    /\ \E k \in 1 .. Len(humanText) :
           /\ humanText[k] = "A"
           /\ Holds(ranges.human[1], k - 1)

====
